---- MODULE Spec2Model ----
(***************************************************************************)
(* gophermart: the order ledger (PostgreSQL tables orders and withdrawals), *)
(* the HTTP handlers that submit orders, read the balance and withdraw,     *)
(* and the accrual client that polls the external accrual system and        *)
(* writes its answers back.                                                 *)
(*                                                                          *)
(* Every SQL statement is one atomic step (PostgreSQL runs the pool's       *)
(* statements and the transaction of CreateWithdrawal at READ COMMITTED,     *)
(* the isolation pgxpool.Begin gives: each statement sees what was           *)
(* committed when it starts).  Amounts are integers (points).               *)
(***************************************************************************)
EXTENDS Integers, Sequences, FiniteSets

\* ---------------------------------------------------------------- bounds
MaxReq == 2         \* HTTP requests in flight at once
MaxTasks == 2       \* updateOrderStatus goroutines alive at once
MaxAccrual == 2     \* largest accrual the accrual system grants
MaxSum == 2         \* largest sum a withdrawal request asks for
MaxWithdrawals == 2 \* rows of the withdrawals table
MaxRetryAfter == 2  \* largest Retry-After, in seconds, the accrual system sends

Users == {"u1", "u2"}
\* Order numbers are strings of characters; a digit is its value.
Numbers == {<<1, 8>>, <<1, 2>>}
Labels == {<<2, 6>>, <<1, 2>>}
\* numbers submitted where the claim is about two orders being polled: both pass
\* the Luhn check
ClientNumbers == {<<1, 8>>, <<2, 6>>}
\* request bodies of POST /api/user/orders: the empty body, a number that passes
\* the Luhn check, one that fails it, and one with a character that is no digit
\* (any value outside 0..9 stands for such a character)
Payloads == {<<>>, <<1, 8>>, <<1, 2>>, <<1, 10>>}
RetryAfters == 0..MaxRetryAfter
Accruals == 1..MaxAccrual
Sums == 1..MaxSum
\* the sums a request body may carry: req.Sum is a float64 the handler does not test
AnySums == (0 - 1)..MaxSum
Req == 1..MaxReq
Task == 1..MaxTasks

\* A NULL column / a nil *float64; a present value x is <<x>>.
Nil == <<>>

VARIABLES orders, withdrawals, reqs, tasks, oracle, last,
          cancelled,  \* main's ctx is done (SIGINT / SIGTERM)
          loop        \* Client.Start: "running" in its select loop, or "stopped"

vars == <<orders, withdrawals, reqs, tasks, oracle, last, cancelled, loop>>

\* what the signal and the loop's return change, and nothing else does
ctl == <<cancelled, loop>>

\* ------------------------------------------------------------ luhn.IsValid
IsDigit(c) == c \in 0..9

\* the loop body for the character at byte index i (0-based)
LuhnDigit(number, i) ==
    LET digit  == number[i + 1]
        parity == Len(number) % 2
        dbl    == digit * 2
    IN  IF i % 2 = parity
        THEN (IF dbl > 9 THEN dbl - 9 ELSE dbl)
        ELSE digit

RECURSIVE LuhnSum(_, _)
LuhnSum(number, i) ==
    IF i >= Len(number) THEN 0
    ELSE LuhnDigit(number, i) + LuhnSum(number, i + 1)

IsValid(number) ==
    /\ \A k \in 1..Len(number) : IsDigit(number[k])
    /\ LuhnSum(number, 0) % 10 = 0

\* ------------------------------------------------------------ the ledger
\* SELECT COALESCE(SUM(x), 0): NULLs are skipped.
RECURSIVE SumAccrual(_)
SumAccrual(rows) ==
    IF rows = {} THEN 0
    ELSE LET o == CHOOSE x \in rows : TRUE
         IN  (IF o.accrual = Nil THEN 0 ELSE o.accrual[1]) + SumAccrual(rows \ {o})

\* (mutant) the sleep is skipped
SleepSkipped(t) == TRUE

\* (mutant) the status filter is missing
AccrualSumAnyStatus(u) == SumAccrual({o \in orders : o.user = u})

\* ... FROM orders WHERE user_id = $1 AND status = 'PROCESSED'
AccrualSum(u) ==
    SumAccrual({o \in orders : o.user = u /\ o.status = "PROCESSED"})

RECURSIVE SumSeq(_, _)
SumSeq(ws, u) ==
    IF ws = <<>> THEN 0
    ELSE (IF Head(ws).user = u THEN Head(ws).sum ELSE 0) + SumSeq(Tail(ws), u)

\* ... FROM withdrawals WHERE user_id = $1
WithdrawnSum(u) == SumSeq(withdrawals, u)

\* (mutant) the column is not UNIQUE
NoUniqueConstraint(n) == FALSE

\* orders.number is UNIQUE: the INSERT raises 23505 when a row has the number
UniqueViolation(n) == \E o \in orders : o.number = n

\* (mutant) the row is inserted as PROCESSING
NewOrderRowProcessing(u, n) ==
    [number |-> n, user |-> u, status |-> "PROCESSING", accrual |-> Nil]

\* the row CreateOrder inserts
NewOrderRow(u, n) == [number |-> n, user |-> u, status |-> "NEW", accrual |-> Nil]

\* SELECT ... FROM orders WHERE status = ANY($1)
GetOrdersByStatus(statuses) == {o \in orders : o.status \in statuses}

\* (mutant) the status is written first, the accrual by a second statement
UpdateStatusOnly(n, status, accrual) ==
    {IF o.number = n THEN [o EXCEPT !.status = status] ELSE o : o \in orders}

\* UPDATE orders SET status = $1, accrual = $2 WHERE number = $3
UpdateOrder(n, status, accrual) ==
    {IF o.number = n THEN [o EXCEPT !.status = status, !.accrual = accrual] ELSE o
        : o \in orders}

\* (mutant) the withdrawals already made are not subtracted
InsufficientAgainstAccrual(cur, wd, sum) == cur < sum

\* (mutant) a sum equal to the balance is refused
InsufficientOrEqual(cur, wd, sum) == (cur - wd) <= sum

\* the comparison of CreateWithdrawal
Insufficient(cur, wd, sum) == (cur - wd) < sum

\* ------------------------------------------------------- request slots
\* An HTTP request in flight: the handler, its arguments and what its queries read.
IdleReq == [op |-> "none", pc |-> "idle", user |-> "-", number |-> <<>>,
            sum |-> 0, cur |-> 0, wd |-> 0]

\* Requests are anonymous: a new one takes the lowest free slot.
FreeSlot(r) == reqs[r].pc = "idle" /\ \A q \in Req : q < r => reqs[q].pc # "idle"

\* What the step just taken exchanged with the outside (NoEvent when nothing): the
\* response a handler wrote (the request it answers, the status code and, for the
\* balance, the body), or the answer a goroutine's GET received.
NoEvent == [op |-> "none", user |-> "-", number |-> <<>>,
            current |-> 0, withdrawn |-> 0, code |-> 0]

Response(q, code) == [op |-> q.op, user |-> q.user, number |-> q.number,
                      current |-> 0, withdrawn |-> 0, code |-> code]

\* the answer a goroutine's GET for the number got (code 0: none, the request failed
\* or the body did not decode)
Answer(number, code) == [NoEvent EXCEPT !.op = "poll", !.number = number, !.code = code]

\* a goroutine of updateOrderStatus: its orderNumber and the decoded
\* models.AccrualResponse it holds between the GET and the UPDATE
NoResp == [order |-> <<>>, status |-> "", accrual |-> Nil]

\* after is the Retry-After it is sleeping out, slept the seconds it has slept
IdleTask == [pc |-> "idle", order |-> <<>>, resp |-> NoResp, after |-> 0, slept |-> 0]

Init ==
    /\ orders = {}
    /\ withdrawals = <<>>
    /\ reqs = [r \in Req |-> IdleReq]
    /\ tasks = [t \in Task |-> IdleTask]
    /\ oracle = [n \in Numbers \cup ClientNumbers |-> [status |-> "UNKNOWN", accrual |-> Nil]]
    /\ last = NoEvent
    /\ cancelled = FALSE
    /\ loop = "running"

\* ------------------------------------------------- API.CreateOrder
\* the handler up to the INSERT of storage.CreateOrder
CreateOrder(r, u, n) ==
    /\ FreeSlot(r)
    /\ LET q == [IdleReq EXCEPT !.op = "CreateOrder", !.user = u, !.number = n]
       IN  IF ~IsValid(n)
           THEN /\ last' = Response(q, 422)
                /\ UNCHANGED <<orders, reqs>>
           ELSE IF UniqueViolation(n)
           THEN /\ reqs' = [reqs EXCEPT ![r] = [q EXCEPT !.pc = "o_exists"]]
                /\ last' = NoEvent
                /\ UNCHANGED orders
           ELSE /\ orders' = orders \cup {NewOrderRow(u, n)}
                /\ last' = Response(q, 202)
                /\ UNCHANGED reqs
    /\ UNCHANGED <<withdrawals, tasks, oracle>>
    /\ UNCHANGED ctl

\* (mutant) the owner test is inverted
ExistsCodeInverted(owner, u) == IF owner = u THEN 409 ELSE 200

\* the status the handler answers for the row GetOrderByNumber returned
ExistsCode(owner, u) == IF owner = u THEN 200 ELSE 409

\* after 23505: GetOrderByNumber, then ErrOrderExists / ErrOrderExistsOther
CreateOrderExists(r) ==
    /\ reqs[r].pc = "o_exists"
    /\ \E o \in orders :
        /\ o.number = reqs[r].number
        /\ last' = Response(reqs[r], ExistsCode(o.user, reqs[r].user))
    /\ reqs' = [reqs EXCEPT ![r] = IdleReq]
    /\ UNCHANGED <<orders, withdrawals, tasks, oracle>>
    /\ UNCHANGED ctl

\* ------------------------------------------------- API.GetBalance
\* first query of storage.GetBalance
GetBalance(r, u) ==
    /\ FreeSlot(r)
    /\ reqs' = [reqs EXCEPT ![r] = [IdleReq EXCEPT !.op = "GetBalance", !.user = u,
                                       !.pc = "b_withdrawn", !.cur = AccrualSum(u)]]
    /\ last' = NoEvent
    /\ UNCHANGED <<orders, withdrawals, tasks, oracle>>
    /\ UNCHANGED ctl

\* second query, balance.Current -= balance.Withdrawn, 200 with the balance
GetBalanceWithdrawn(r) ==
    /\ reqs[r].pc = "b_withdrawn"
    /\ LET w == WithdrawnSum(reqs[r].user)
       IN  last' = [Response(reqs[r], 200) EXCEPT !.current = reqs[r].cur - w,
                                                   !.withdrawn = w]
    /\ reqs' = [reqs EXCEPT ![r] = IdleReq]
    /\ UNCHANGED <<orders, withdrawals, tasks, oracle>>
    /\ UNCHANGED ctl

\* ------------------------------------------------- API.Withdraw
InFlightWithdraws == Cardinality({r \in Req : reqs[r].op = "Withdraw"})

\* (mutant) the label must also be the number of an order
LabelOfAnOrder(label) == IsValid(label) /\ \E o \in orders : o.number = label

\* the only check the handler makes of req.Order
LabelAccepted(label) == IsValid(label)

\* the handler up to the first query of the transaction of CreateWithdrawal
Withdraw(r, u, label, sum) ==
    /\ FreeSlot(r)
    /\ Len(withdrawals) + InFlightWithdraws < MaxWithdrawals
    /\ LET q == [IdleReq EXCEPT !.op = "Withdraw", !.user = u, !.number = label, !.sum = sum]
       IN  IF ~LabelAccepted(label)
           THEN /\ last' = Response(q, 422)
                /\ UNCHANGED reqs
           ELSE /\ reqs' = [reqs EXCEPT ![r] = [q EXCEPT !.pc = "w_withdrawn",
                                                   !.cur = AccrualSum(u)]]
                /\ last' = NoEvent
    /\ UNCHANGED <<orders, withdrawals, tasks, oracle>>
    /\ UNCHANGED ctl

\* second query of the transaction
WithdrawReadWithdrawn(r) ==
    /\ reqs[r].pc = "w_withdrawn"
    /\ reqs' = [reqs EXCEPT ![r] = [reqs[r] EXCEPT !.pc = "w_check",
                                       !.wd = WithdrawnSum(reqs[r].user)]]
    /\ last' = NoEvent
    /\ UNCHANGED <<orders, withdrawals, tasks, oracle>>
    /\ UNCHANGED ctl

\* the row CreateWithdrawal inserts
NewWithdrawalRow(q) == [user |-> q.user, order |-> q.number, sum |-> q.sum]

\* the check, then INSERT and Commit (the row is visible to others at Commit)
WithdrawCommit(r) ==
    /\ reqs[r].pc = "w_check"
    /\ IF Insufficient(reqs[r].cur, reqs[r].wd, reqs[r].sum)
       THEN /\ last' = Response(reqs[r], 402)
            /\ UNCHANGED withdrawals
       ELSE /\ withdrawals' = Append(withdrawals, NewWithdrawalRow(reqs[r]))
            /\ last' = Response(reqs[r], 200)
    /\ reqs' = [reqs EXCEPT ![r] = IdleReq]
    /\ UNCHANGED <<orders, tasks, oracle>>
    /\ UNCHANGED ctl

\* ------------------------------------------------- the accrual system
\* It answers 204 for a number it has no record of, then REGISTERED, PROCESSING and
\* at last INVALID or PROCESSED with the accrual; it never goes back.
Rank(status) ==
    CASE status = "UNKNOWN" -> 0
      [] status = "REGISTERED" -> 1
      [] status = "PROCESSING" -> 2
      [] OTHER -> 3

OracleStates ==
    [status : {"REGISTERED", "PROCESSING", "INVALID"}, accrual : {Nil}]
        \cup [status : {"PROCESSED"}, accrual : {<<a>> : a \in Accruals}]

OracleAdvance(n) ==
    /\ \E o \in orders : o.number = n
    /\ \E s \in OracleStates :
        /\ Rank(s.status) > Rank(oracle[n].status)
        /\ oracle' = [oracle EXCEPT ![n] = s]
    /\ last' = NoEvent
    /\ UNCHANGED <<orders, withdrawals, reqs, tasks>>
    /\ UNCHANGED ctl

\* ------------------------------------------------- accrual.Client
PendingStatuses == {"NEW", "PROCESSING"}

FreeTasks == {t \in Task : tasks[t].pc = "idle"}

\* (mutant) updateOrderStatus is called without go: the loop is inside processOrders
\* until the calls have returned
LoopWaits == \A t \in Task : tasks[t].pc = "idle"

\* go c.updateOrderStatus(...): processOrders returns without waiting for the
\* goroutines it started, and the loop is back in its select
LoopFree == TRUE

\* one tick of Start: processOrders lists the pending orders and starts a goroutine
\* for each. Once ctx is done GetOrdersByStatus(ctx, ...) fails and the tick returns
\* without starting any.
processOrders ==
    LET pending == {o.number : o \in GetOrdersByStatus(PendingStatuses)}
    IN  /\ loop = "running"
        /\ LoopFree
        /\ ~cancelled
        /\ pending # {}
        /\ Cardinality(pending) <= Cardinality(FreeTasks)
        /\ LET slot == CHOOSE f \in [pending -> FreeTasks] :
                            \A a, b \in pending : a # b => f[a] # f[b]
               started == {slot[n] : n \in pending}
               number(t) == CHOOSE n \in pending : slot[n] = t
           IN  tasks' = [t \in Task |->
                            IF t \in started
                            THEN [IdleTask EXCEPT !.pc = "get", !.order = number(t)]
                            ELSE tasks[t]]
        /\ last' = NoEvent
    /\ UNCHANGED <<orders, withdrawals, reqs, oracle>>
    /\ UNCHANGED ctl

\* GET answered 200 with a body that decodes
GetOK(t) ==
    /\ tasks[t].pc = "get"
    /\ ~cancelled
    /\ oracle[tasks[t].order].status # "UNKNOWN"
    /\ tasks' = [tasks EXCEPT ![t] = [tasks[t] EXCEPT !.pc = "update",
            !.resp = [order |-> tasks[t].order,
                      status |-> oracle[tasks[t].order].status,
                      accrual |-> oracle[tasks[t].order].accrual]]]
    /\ last' = Answer(tasks[t].order, 200)
    /\ UNCHANGED <<orders, withdrawals, reqs, oracle>>
    /\ UNCHANGED ctl

\* (mutant) 204 is taken for a refusal
NoContentMarksInvalid(t) ==
    /\ tasks[t].pc = "get"
    /\ ~cancelled
    /\ oracle[tasks[t].order].status = "UNKNOWN"
    /\ orders' = UpdateOrder(tasks[t].order, "INVALID", Nil)
    /\ tasks' = [tasks EXCEPT ![t] = IdleTask]
    /\ last' = Answer(tasks[t].order, 204)
    /\ UNCHANGED <<withdrawals, reqs, oracle>>
    /\ UNCHANGED ctl

\* GET answered 204
GetNoContent(t) ==
    /\ tasks[t].pc = "get"
    /\ ~cancelled
    /\ oracle[tasks[t].order].status = "UNKNOWN"
    /\ tasks' = [tasks EXCEPT ![t] = IdleTask]
    /\ last' = Answer(tasks[t].order, 204)
    /\ UNCHANGED <<orders, withdrawals, reqs, oracle>>
    /\ UNCHANGED ctl

\* the request failed (it always does once ctx is done), or the 200 body did not
\* decode: logged, return
GetFailed(t) ==
    /\ tasks[t].pc = "get"
    /\ tasks' = [tasks EXCEPT ![t] = IdleTask]
    /\ last' = Answer(tasks[t].order, 0)
    /\ UNCHANGED <<orders, withdrawals, reqs, oracle>>
    /\ UNCHANGED ctl

\* GET answered 429: time.Sleep(seconds) when Retry-After parses to seconds, else
\* return
RateLimited(t, parses, seconds) ==
    /\ tasks[t].pc = "get"
    /\ ~cancelled
    /\ tasks' = [tasks EXCEPT ![t] =
            IF parses
            THEN [tasks[t] EXCEPT !.pc = "sleep", !.after = seconds, !.slept = 0]
            ELSE IdleTask]
    /\ last' = Answer(tasks[t].order, 429)
    /\ UNCHANGED <<orders, withdrawals, reqs, oracle>>
    /\ UNCHANGED ctl

\* the same where time is not measured: the sleep takes no time
GetRateLimited(t, parses) == RateLimited(t, parses, 0)

\* time.Sleep returns once the duration has elapsed (a ctx that is done does not
\* wake it)
SleepOver(t) == tasks[t].slept >= tasks[t].after

\* time.Sleep is over: the recursive call
Retry(t) ==
    /\ tasks[t].pc = "sleep"
    /\ SleepOver(t)
    /\ tasks' = [tasks EXCEPT ![t] = [tasks[t] EXCEPT !.pc = "get", !.after = 0,
                                                        !.slept = 0]]
    /\ last' = NoEvent
    /\ UNCHANGED <<orders, withdrawals, reqs, oracle>>
    /\ UNCHANGED ctl

\* c.storage.UpdateOrder(ctx, accrualResp.Order, accrualResp.Status, accrualResp.Accrual)
ApplyUpdate(t) ==
    /\ tasks[t].pc = "update"
    /\ orders' = IF cancelled
                  THEN orders    \* pool.Exec with a ctx that is done: error, logged
                  ELSE UpdateOrder(tasks[t].resp.order, tasks[t].resp.status,
                                   tasks[t].resp.accrual)
    /\ tasks' = [tasks EXCEPT ![t] = IdleTask]
    /\ last' = NoEvent
    /\ UNCHANGED <<withdrawals, reqs, oracle>>
    /\ UNCHANGED ctl

Next ==
    \/ \E r \in Req, u \in Users, n \in Numbers : CreateOrder(r, u, n)
    \/ \E r \in Req : CreateOrderExists(r)
    \/ \E r \in Req, u \in Users : GetBalance(r, u)
    \/ \E r \in Req : GetBalanceWithdrawn(r)
    \/ \E r \in Req, u \in Users, l \in Labels, s \in Sums : Withdraw(r, u, l, s)
    \/ \E r \in Req : WithdrawReadWithdrawn(r)
    \/ \E r \in Req : WithdrawCommit(r)
    \/ \E n \in Numbers : OracleAdvance(n)
    \/ processOrders
    \/ \E t \in Task : GetOK(t)
    \/ \E t \in Task : GetNoContent(t)
    \/ \E t \in Task : GetFailed(t)
    \/ \E t \in Task, parses \in BOOLEAN : GetRateLimited(t, parses)
    \/ \E t \in Task : Retry(t)
    \/ \E t \in Task : ApplyUpdate(t)

Spec == Init /\ [][Next]_vars

\* ------------------------------------------------- one caller, one thing at a time
\* no request is in flight and no goroutine of updateOrderStatus is alive
AllIdle == (\A r \in Req : reqs[r].pc = "idle") /\ (\A t \in Task : tasks[t].pc = "idle")

\* The same program driven by a single client that waits for each response, with
\* ticks far enough apart for each tick's goroutines to finish before the next.
NextSeq ==
    \/ AllIdle /\ \E r \in Req, u \in Users, n \in Numbers : CreateOrder(r, u, n)
    \/ \E r \in Req : CreateOrderExists(r)
    \/ AllIdle /\ \E r \in Req, u \in Users : GetBalance(r, u)
    \/ \E r \in Req : GetBalanceWithdrawn(r)
    \/ AllIdle /\ \E r \in Req, u \in Users, l \in Labels, s \in Sums : Withdraw(r, u, l, s)
    \/ \E r \in Req : WithdrawReadWithdrawn(r)
    \/ \E r \in Req : WithdrawCommit(r)
    \/ \E n \in Numbers : OracleAdvance(n)
    \/ AllIdle /\ processOrders
    \/ \E t \in Task : GetOK(t)
    \/ \E t \in Task : GetNoContent(t)
    \/ \E t \in Task : GetFailed(t)
    \/ \E t \in Task, parses \in BOOLEAN : GetRateLimited(t, parses)
    \/ \E t \in Task : Retry(t)
    \/ \E t \in Task : ApplyUpdate(t)

SpecSeq == Init /\ [][NextSeq]_vars

\* ------------------------------------------------- balance queries overlap the rest
\* nothing is in flight but balance queries
WritersIdle ==
    /\ \A r \in Req : reqs[r].pc \in {"idle", "b_withdrawn"}
    /\ \A t \in Task : tasks[t].pc = "idle"

\* As NextSeq, except that GetBalance calls come at any time and overlap everything:
\* submissions, withdrawals and ticks still wait for one another.
NextBal ==
    \/ WritersIdle /\ \E r \in Req, u \in Users, n \in Numbers : CreateOrder(r, u, n)
    \/ \E r \in Req : CreateOrderExists(r)
    \/ \E r \in Req, u \in Users : GetBalance(r, u)
    \/ \E r \in Req : GetBalanceWithdrawn(r)
    \/ WritersIdle /\ \E r \in Req, u \in Users, l \in Labels, s \in Sums : Withdraw(r, u, l, s)
    \/ \E r \in Req : WithdrawReadWithdrawn(r)
    \/ \E r \in Req : WithdrawCommit(r)
    \/ \E n \in Numbers : OracleAdvance(n)
    \/ WritersIdle /\ processOrders
    \/ \E t \in Task : GetOK(t)
    \/ \E t \in Task : GetNoContent(t)
    \/ \E t \in Task : GetFailed(t)
    \/ \E t \in Task, parses \in BOOLEAN : GetRateLimited(t, parses)
    \/ \E t \in Task : Retry(t)
    \/ \E t \in Task : ApplyUpdate(t)

SpecBal == Init /\ [][NextBal]_vars

\* ------------------------------------------------- any body the contract allows
\* The bodies GET /api/orders/{number} may answer with 200: the number asked for,
\* one of the four statuses, accrual present or absent.
Bodies(n) ==
    [order : {n},
     status : {"REGISTERED", "PROCESSING", "INVALID", "PROCESSED"},
     accrual : {Nil} \cup {<<a>> : a \in Accruals}]

\* GET answered 200 with the body, which json.Unmarshal decodes as it is
GetBody(t, body) ==
    /\ tasks[t].pc = "get"
    /\ ~cancelled
    /\ body \in Bodies(tasks[t].order)
    /\ tasks' = [tasks EXCEPT ![t] = [tasks[t] EXCEPT !.pc = "update", !.resp = body]]
    /\ last' = Answer(tasks[t].order, 200)
    /\ UNCHANGED <<orders, withdrawals, reqs, oracle>>
    /\ UNCHANGED ctl

\* One caller at a time as in NextSeq, two numbers that pass the Luhn check, and an
\* accrual system of which only the contract is known.
NextBody ==
    \/ AllIdle /\ \E r \in Req, u \in Users, n \in ClientNumbers : CreateOrder(r, u, n)
    \/ \E r \in Req : CreateOrderExists(r)
    \/ AllIdle /\ \E r \in Req, u \in Users : GetBalance(r, u)
    \/ \E r \in Req : GetBalanceWithdrawn(r)
    \/ AllIdle /\ \E r \in Req, u \in Users, l \in Labels, s \in Sums : Withdraw(r, u, l, s)
    \/ \E r \in Req : WithdrawReadWithdrawn(r)
    \/ \E r \in Req : WithdrawCommit(r)
    \/ AllIdle /\ processOrders
    \/ \E t \in Task : \E body \in Bodies(tasks[t].order) : GetBody(t, body)
    \/ \E t \in Task : GetNoContent(t)
    \/ \E t \in Task : GetFailed(t)
    \/ \E t \in Task : ApplyUpdate(t)

SpecBody == Init /\ [][NextBody]_vars

\* ------------------------------------------------- a body with another number
\* GET answered 200 with a body whose order field is any of the numbers: the client
\* decodes it without comparing the field with the number it asked for
GetAnyBody(t, body) ==
    /\ tasks[t].pc = "get"
    /\ ~cancelled
    /\ \E n \in ClientNumbers : body \in Bodies(n)
    /\ tasks' = [tasks EXCEPT ![t] = [tasks[t] EXCEPT !.pc = "update", !.resp = body]]
    /\ last' = Answer(tasks[t].order, 200)
    /\ UNCHANGED <<orders, withdrawals, reqs, oracle>>
    /\ UNCHANGED ctl

\* One user's submissions, each number once, and the accrual client with an accrual
\* system whose 200 bodies may name any order.
NextForeign ==
    \/ \E r \in Req, n \in ClientNumbers : ~UniqueViolation(n) /\ CreateOrder(r, "u1", n)
    \/ processOrders
    \/ \E t \in Task, n \in ClientNumbers : \E body \in Bodies(n) : GetAnyBody(t, body)
    \/ \E t \in Task : GetNoContent(t)
    \/ \E t \in Task : GetFailed(t)
    \/ \E t \in Task : ApplyUpdate(t)

SpecForeign == Init /\ [][NextForeign]_vars

\* ------------------------------------------------- withdrawals of any sum
\* the two users asking for their balance and withdrawing any sum, the handlers
\* overlapping
NextSums ==
    \/ \E r \in Req, u \in Users : GetBalance(r, u)
    \/ \E r \in Req : GetBalanceWithdrawn(r)
    \/ \E r \in Req, u \in Users, l \in Labels, s \in AnySums : Withdraw(r, u, l, s)
    \/ \E r \in Req : WithdrawReadWithdrawn(r)
    \/ \E r \in Req : WithdrawCommit(r)

SpecSums == Init /\ [][NextSums]_vars

\* ------------------------------------------------- the client, with time
\* A second passes: every goroutine in time.Sleep has slept one second more (counted
\* up to the duration it sleeps).
TimePasses ==
    /\ \E t \in Task : tasks[t].pc = "sleep" /\ ~SleepOver(t)
    /\ tasks' = [t \in Task |->
            IF tasks[t].pc = "sleep" /\ ~SleepOver(t)
            THEN [tasks[t] EXCEPT !.slept = @ + 1]
            ELSE tasks[t]]
    /\ last' = NoEvent
    /\ UNCHANGED <<orders, withdrawals, reqs, oracle>>
    /\ UNCHANGED ctl

\* One user's submissions, each number once, and the accrual client, the 429
\* answers carrying a Retry-After in seconds. A tick may come at any moment of a goroutine's sleep: the ticker's phase
\* and the time the accrual system takes to answer are arbitrary.
NextClient ==
    \/ \E r \in Req, n \in ClientNumbers : ~UniqueViolation(n) /\ CreateOrder(r, "u1", n)
    \/ \E n \in ClientNumbers : OracleAdvance(n)
    \/ processOrders
    \/ \E t \in Task : GetOK(t)
    \/ \E t \in Task : GetNoContent(t)
    \/ \E t \in Task : GetFailed(t)
    \/ \E t \in Task, seconds \in RetryAfters : RateLimited(t, TRUE, seconds)
    \/ \E t \in Task : RateLimited(t, FALSE, 0)
    \/ \E t \in Task : Retry(t)
    \/ \E t \in Task : ApplyUpdate(t)
    \/ TimePasses

SpecClient == Init /\ [][NextClient]_vars

\* ------------------------------------------------- shutdown
\* SIGINT or SIGTERM: the ctx of signal.NotifyContext is done
Cancel ==
    /\ ~cancelled
    /\ cancelled' = TRUE
    /\ last' = NoEvent
    /\ UNCHANGED <<orders, withdrawals, reqs, tasks, oracle, loop>>

\* (mutant) the loop has no case for ctx.Done(): it goes on selecting
StopIgnored ==
    /\ cancelled
    /\ loop = "running"
    /\ last' = NoEvent
    /\ UNCHANGED <<orders, withdrawals, reqs, tasks, oracle>>
    /\ UNCHANGED ctl

\* Start's select takes case <-ctx.Done() and returns
Stop ==
    /\ cancelled
    /\ loop = "running"
    /\ loop' = "stopped"
    /\ last' = NoEvent
    /\ UNCHANGED <<orders, withdrawals, reqs, tasks, oracle, cancelled>>

\* a step of goroutine t
TaskStep(t) ==
    \/ GetOK(t)
    \/ GetNoContent(t)
    \/ GetFailed(t)
    \/ \E seconds \in RetryAfters : RateLimited(t, TRUE, seconds)
    \/ RateLimited(t, FALSE, 0)
    \/ Retry(t)
    \/ ApplyUpdate(t)

\* One user's submissions, the accrual client with time, and the signal.
NextFair ==
    \/ \E r \in Req, n \in Numbers : ~UniqueViolation(n) /\ CreateOrder(r, "u1", n)
    \/ \E n \in Numbers : OracleAdvance(n)
    \/ processOrders
    \/ \E t \in Task : TaskStep(t)
    \/ TimePasses
    \/ Cancel
    \/ Stop

\* The Go scheduler runs every goroutine that can run, time goes on, and a select
\* with a ready case proceeds: the loop takes case <-ctx.Done() when it is ready,
\* since the ticker is ready once a second only. Which answer the accrual system
\* gives, and whether the signal comes, is not constrained.
SpecFair ==
    /\ Init
    /\ [][NextFair]_vars
    /\ \A t \in Task : WF_vars(TaskStep(t))
    /\ WF_vars(TimePasses)
    /\ WF_vars(Stop)

\* ------------------------------------------------- storage failures in the client
\* (mutant) Start returns when a tick fails
StartReturnsOnError ==
    /\ loop = "running"
    /\ LoopFree
    /\ loop' = "stopped"
    /\ last' = [NoEvent EXCEPT !.op = "tick"]
    /\ UNCHANGED <<orders, withdrawals, reqs, tasks, oracle, cancelled>>

\* a tick whose GetOrdersByStatus fails: logged, processOrders returns, and Start
\* is back in its select
processOrdersFailed ==
    /\ loop = "running"
    /\ LoopFree
    /\ last' = [NoEvent EXCEPT !.op = "tick"]
    /\ UNCHANGED <<orders, withdrawals, reqs, tasks, oracle>>
    /\ UNCHANGED ctl

\* UpdateOrder fails: logged, the goroutine returns
ApplyUpdateFailed(t) ==
    /\ tasks[t].pc = "update"
    /\ tasks' = [tasks EXCEPT ![t] = IdleTask]
    /\ last' = [NoEvent EXCEPT !.op = "update", !.number = tasks[t].order]
    /\ UNCHANGED <<orders, withdrawals, reqs, oracle>>
    /\ UNCHANGED ctl

\* One user's submissions, each number once, and the accrual client with a storage
\* and an accrual system that may fail at any call.
NextHeal ==
    \/ \E r \in Req, n \in ClientNumbers : ~UniqueViolation(n) /\ CreateOrder(r, "u1", n)
    \/ \E n \in ClientNumbers : OracleAdvance(n)
    \/ processOrders
    \/ processOrdersFailed
    \/ \E t \in Task : GetOK(t)
    \/ \E t \in Task : GetNoContent(t)
    \/ \E t \in Task : GetFailed(t)
    \/ \E t \in Task : ApplyUpdate(t)
    \/ \E t \in Task : ApplyUpdateFailed(t)

SpecHeal == Init /\ [][NextHeal]_vars

\* ------------------------------------------------- the signal during an UPDATE
\* The signal comes while UpdateOrder's statement is being executed: pgx asks the
\* server to cancel it, and the statement either has taken effect as a whole
\* (applied) or is rolled back as a whole. code 1: it has taken effect.
ApplyUpdateCancelled(t, applied) ==
    /\ tasks[t].pc = "update"
    /\ ~cancelled
    /\ cancelled' = TRUE
    /\ orders' = IF applied
                  THEN UpdateOrder(tasks[t].resp.order, tasks[t].resp.status,
                                   tasks[t].resp.accrual)
                  ELSE orders
    /\ tasks' = [tasks EXCEPT ![t] = IdleTask]
    /\ last' = [NoEvent EXCEPT !.op = "update", !.number = tasks[t].order,
                               !.code = IF applied THEN 1 ELSE 0]
    /\ UNCHANGED <<withdrawals, reqs, oracle, loop>>

\* NextFair, and the signal may also come in the middle of an UPDATE
NextShutdown ==
    \/ NextFair
    \/ \E t \in Task, applied \in BOOLEAN : ApplyUpdateCancelled(t, applied)

SpecShutdown == Init /\ [][NextShutdown]_vars

\* ------------------------------------------------- submissions of any body
\* the two users submitting any of the bodies, the handlers overlapping
NextSubmit ==
    \/ \E r \in Req, u \in Users, body \in Payloads : CreateOrder(r, u, body)
    \/ \E r \in Req : CreateOrderExists(r)

SpecSubmit == Init /\ [][NextSubmit]_vars

\* =================================================================== claims
Terminal(status) == status \in {"PROCESSED", "INVALID"}

\* the step in which request slot r writes its response
Finishes(r, pc) == reqs[r].pc = pc /\ reqs'[r] = IdleReq

\* C1: in every reachable state, for every user, the recorded withdrawals sum to at
\* most the accrual summed over the user's PROCESSED orders.
BalanceInvariant == \A u \in Users : WithdrawnSum(u) <= AccrualSum(u)

\* C2: when a Withdraw call comes to its decision after another Withdraw of the
\* same user committed behind its back (the two ran concurrently), and its sum was
\* affordable against the balance it read but is not once the other withdrawal is
\* counted, it answers 402 and inserts nothing: the two never both succeed.
NoDoubleSpend ==
    [][\A r \in Req :
        (/\ Finishes(r, "w_check")
         /\ WithdrawnSum(reqs[r].user) > reqs[r].wd
         /\ reqs[r].sum <= reqs[r].cur - reqs[r].wd
         /\ reqs[r].sum > reqs[r].cur - WithdrawnSum(reqs[r].user))
        => (last'.code = 402 /\ withdrawals' = withdrawals)]_vars

\* NEW < PROCESSING (REGISTERED counts as PROCESSING) < PROCESSED, INVALID
StatusRank(status) ==
    CASE status = "NEW" -> 0
      [] Terminal(status) -> 2
      [] OTHER -> 1

\* C3: every order's status only moves forward, NEW -> PROCESSING -> PROCESSED or
\* INVALID, and once it is PROCESSED or INVALID no later step changes its status or
\* its accrual.
StatusMonotonic ==
    [][\A o \in orders : \E p \in orders' :
        /\ p.number = o.number
        /\ StatusRank(p.status) >= StatusRank(o.status)
        /\ Terminal(o.status) => p = o]_vars

\* C4: in every reachable state every order's stored status is one of NEW,
\* PROCESSING, PROCESSED, INVALID.
StatusDomain ==
    \A o \in orders : o.status \in {"NEW", "PROCESSING", "PROCESSED", "INVALID"}

\* C5: every order that is not yet PROCESSED or INVALID is returned by the
\* pending-orders query of processOrders, so that it keeps being polled.
PendingPolled ==
    \A o \in orders : ~Terminal(o.status) => o \in GetOrdersByStatus(PendingStatuses)

\* C6: a Withdraw call whose sum is greater than the balance its transaction
\* computed (accrual of the user's PROCESSED orders minus the user's withdrawals)
\* answers 402 and changes nothing: no withdrawal row, no order.
InsufficientFundsRejected ==
    [][\A r \in Req :
        (Finishes(r, "w_check") /\ reqs[r].sum > reqs[r].cur - reqs[r].wd)
        => (/\ last'.op = "Withdraw" /\ last'.code = 402
            /\ withdrawals' = withdrawals /\ orders' = orders)]_vars

InsufficientFundsRejectedWitness ==
    /\ last.op = "Withdraw" /\ last.code = 402
    /\ AccrualSum(last.user) > 0
    /\ WithdrawnSum(last.user) > 0

\* C7: with one caller at a time: once the user's order is PROCESSED with accrual
\* X, the balance query answers current = X, withdrawn = 0; a Withdraw of exactly X
\* succeeds and records X; the next balance query answers current = 0,
\* withdrawn = X; and a further Withdraw of any positive sum answers 402.
EndToEnd ==
    [][\A r \in Req :
        LET u == reqs[r].user
            X == AccrualSum(u)
            W == WithdrawnSum(u)
        IN  /\ (Finishes(r, "b_withdrawn") /\ W = 0)
                => (last'.code = 200 /\ last'.current = X /\ last'.withdrawn = 0)
            /\ (Finishes(r, "w_check") /\ X > 0 /\ W = 0 /\ reqs[r].sum = X)
                => (/\ last'.code = 200
                    /\ withdrawals' = Append(withdrawals,
                          [user |-> u, order |-> reqs[r].number, sum |-> X]))
            /\ (Finishes(r, "b_withdrawn") /\ X > 0 /\ W = X)
                => (last'.code = 200 /\ last'.current = 0 /\ last'.withdrawn = X)
            /\ (Finishes(r, "w_check") /\ X > 0 /\ W = X /\ reqs[r].sum > 0)
                => (last'.code = 402 /\ withdrawals' = withdrawals)]_vars

EndToEndWitness ==
    /\ last.op = "Withdraw" /\ last.code = 402
    /\ Len(withdrawals) = 1
    /\ withdrawals[1].user = last.user
    /\ withdrawals[1].sum = AccrualSum(last.user)

\* the step in which a CreateOrder request of user u for number n reaches the ledger
Submits(u, n) ==
    \/ /\ last'.op = "CreateOrder" /\ last'.user = u /\ last'.number = n
       /\ reqs' = reqs
    \/ \E r \in Req : /\ reqs[r].pc = "idle" /\ reqs'[r].op = "CreateOrder"
                      /\ reqs'[r].user = u /\ reqs'[r].number = n

Absent(n) == ~ \E o \in orders : o.number = n

\* C8: submitting a checksum-valid number that is absent from the ledger creates
\* exactly one order with that number, NEW, without accrual, owned by the
\* submitter, and the caller gets 202.
NewOrderAccepted ==
    [][\A u \in Users, n \in Numbers :
        (Submits(u, n) /\ IsValid(n) /\ Absent(n))
        => (/\ orders' = orders \cup
                  {[number |-> n, user |-> u, status |-> "NEW", accrual |-> Nil]}
            /\ Cardinality({o \in orders' : o.number = n}) = 1
            /\ last'.op = "CreateOrder" /\ last'.user = u /\ last'.number = n
            /\ last'.code = 202)]_vars

NewOrderAcceptedWitness ==
    /\ last.op = "CreateOrder" /\ last.code = 202
    /\ \E o \in orders : o.number = last.number /\ o.user = last.user

\* C9: submitting a number that is already in the ledger changes nothing in it and
\* answers 200 to the owner and 409 to any other user.
ResubmissionIdempotent ==
    [][/\ \A u \in Users, n \in Numbers :
            (Submits(u, n) /\ ~Absent(n)) => (orders' = orders /\ last' = NoEvent)
       /\ \A r \in Req : Finishes(r, "o_exists")
            => (/\ orders' = orders
                /\ last'.op = "CreateOrder" /\ last'.user = reqs[r].user
                /\ last'.number = reqs[r].number
                /\ \A o \in orders : o.number = reqs[r].number
                      => last'.code = (IF o.user = reqs[r].user THEN 200 ELSE 409))]_vars

ResubmissionIdempotentWitness ==
    /\ last.op = "CreateOrder" /\ last.code = 200
    /\ \E o \in orders : /\ o.number = last.number /\ o.user = last.user
                         /\ o.status = "PROCESSED"

UniqueNumber == \A o, p \in orders : o.number = p.number => o = p

\* C10: however submissions of one number by different users interleave, at most
\* one order with the number exists, only the submitter who finds it absent is
\* answered 202 and a different user who finds it present is answered 409, and
\* the owner of an order never changes.
OneOwnerForLife ==
    /\ []UniqueNumber
    /\ [][/\ \A o \in orders : \E p \in orders' : p.number = o.number /\ p.user = o.user
          /\ (last'.op = "CreateOrder" /\ last'.code = 202)
                => (Absent(last'.number)
                    /\ \E o \in orders' : o.number = last'.number /\ o.user = last'.user)
          /\ \A r \in Req :
                (/\ Finishes(r, "o_exists")
                 /\ \E o \in orders : o.number = reqs[r].number /\ o.user # reqs[r].user)
                => last'.code = 409]_vars

OneOwnerForLifeWitness ==
    /\ last.op = "CreateOrder" /\ last.code = 409
    /\ \E o \in orders : /\ o.number = last.number /\ o.user # last.user
                         /\ o.status # "NEW"

\* the accrual the user's PROCESSED orders hold, order number by order number
RECURSIVE ProcessedAccrual(_, _)
ProcessedAccrual(u, numbers) ==
    IF numbers = {} THEN 0
    ELSE LET n == CHOOSE x \in numbers : TRUE
             granted == {o \in orders : /\ o.number = n
                                         /\ o.user = u
                                         /\ o.status = "PROCESSED"
                                         /\ o.accrual # Nil}
         IN  (IF granted = {} THEN 0 ELSE (CHOOSE o \in granted : TRUE).accrual[1])
                 + ProcessedAccrual(u, numbers \ {n})

\* the sums of the user's rows of the withdrawals table, row by row
RECURSIVE RowsSum(_, _)
RowsSum(u, k) ==
    IF k = 0 THEN 0
    ELSE (IF withdrawals[k].user = u THEN withdrawals[k].sum ELSE 0) + RowsSum(u, k - 1)

\* C11: a balance query of a single caller answers 200 with withdrawn = the sum of
\* the user's withdrawals and current = the accrual of the user's PROCESSED orders
\* minus withdrawn; orders in any other status add nothing, whatever accrual they
\* hold, and a user with no orders and no withdrawals gets 0 and 0.
BalanceReported ==
    [][\A r \in Req : Finishes(r, "b_withdrawn") =>
        LET u == reqs[r].user
            w == RowsSum(u, Len(withdrawals))
            a == ProcessedAccrual(u, Numbers \cup ClientNumbers)
        IN  /\ last'.op = "GetBalance" /\ last'.user = u /\ last'.code = 200
            /\ last'.withdrawn = w
            /\ last'.current = a - w
            /\ (orders = {} /\ withdrawals = <<>>)
                    => (last'.current = 0 /\ last'.withdrawn = 0)]_vars

\* a balance with both parts positive was reported to a user who also has an order
\* that holds an accrual without being PROCESSED
BalanceReportedWitness ==
    /\ last.op = "GetBalance" /\ last.current > 0 /\ last.withdrawn > 0
    /\ \E o \in orders : /\ o.user = last.user
                          /\ o.status # "PROCESSED"
                          /\ o.accrual # Nil

\* C12: a balance query that runs while orders are updated and withdrawals are made
\* answers with the two sums of one committed state of the ledger. Here withdrawals
\* and ticks do not overlap one another, so that in every committed state the
\* withdrawals sum to at most the accrual (BalanceInvariant holds): the current
\* balance of one state is never negative.
BalanceSnapshot == last.op = "GetBalance" => last.current >= 0

\* C13: in every reachable state an order holds an accrued amount if and only if its
\* status is PROCESSED: the updates written from the accrual system's answers carry
\* an amount exactly with PROCESSED, and NEW, PROCESSING and INVALID orders hold none.
AmountIffProcessed == \A o \in orders : (o.accrual # Nil) <=> (o.status = "PROCESSED")

\* goroutine t sends a GET to the accrual system in this step
Requests(t) == tasks[t].pc = "get" /\ tasks'[t].pc # "get"

\* C14: when a GET for an order is answered 429 with Retry-After: s, the goroutine
\* that received it sends its next GET for that order no sooner than s seconds
\* later: it leaves its sleep only after s seconds, and the GET follows.
RetryAfterRespected ==
    [][\A t \in Task :
        (tasks[t].pc = "sleep" /\ tasks'[t].pc # "sleep")
            => /\ tasks[t].slept >= tasks[t].after
               /\ tasks'[t].pc = "get"
               /\ tasks'[t].order = tasks[t].order]_vars

\* a goroutine told to wait two seconds has slept them out and is about to retry
RetryAfterRespectedWitness ==
    \E t \in Task : /\ tasks[t].pc = "sleep"
                    /\ tasks[t].after = MaxRetryAfter
                    /\ tasks[t].slept = MaxRetryAfter

\* C15: every invocation of updateOrderStatus returns, also when the accrual system
\* answers 429 to every request it makes: the retries inside one invocation are
\* bounded, and the order is then left for the next tick.
ResolutionTerminates ==
    \A t \in Task : (tasks[t].pc = "get") ~> (tasks[t].pc = "idle")

\* C16: after a GET of any goroutine is answered 429 with Retry-After: s, the client
\* sends no GET for any order until s seconds have passed: while one goroutine is
\* still sleeping out its Retry-After no other goroutine sends a request.
PauseIsGlobal ==
    [][\A t, other \in Task :
        (/\ tasks[t].pc = "sleep"
         /\ tasks[t].slept < tasks[t].after
         /\ other # t)
            => ~Requests(other)]_vars

\* C17 (a): once ctx is done the loop eventually returns; (b) once it has returned
\* no tick starts a goroutine any more; (c) once ctx is done no goroutine changes an
\* order any more, in particular none that was sleeping out a Retry-After when the
\* signal came.
CancellationStops ==
    /\ cancelled ~> (loop = "stopped")
    /\ [][loop = "stopped" =>
            /\ loop' = "stopped"
            /\ \A t \in Task : tasks[t].pc = "idle" => tasks'[t].pc = "idle"]_vars
    /\ [][cancelled => \A o \in orders : o \in orders']_vars

\* the signal has come and the loop has returned while a goroutine is at the end of
\* the two seconds it was told to wait, about to retry for an order that is still
\* NEW and that the accrual system has PROCESSED
CancellationStopsWitness ==
    /\ cancelled
    /\ loop = "stopped"
    /\ \E t \in Task, o \in orders :
        /\ tasks[t].pc = "sleep"
        /\ tasks[t].after = MaxRetryAfter
        /\ tasks[t].slept = MaxRetryAfter
        /\ o.number = tasks[t].order
        /\ o.status = "NEW"
        /\ oracle[o.number].status = "PROCESSED"

PauseIsLocal ==
    \A a \in Task : (tasks[a].pc = "sleep" /\ ~SleepOver(a)) =>
        /\ \A b \in Task \ {a} :
            /\ tasks[b].pc = "get" => ENABLED TaskStep(b)
            /\ tasks[b].pc = "update" => ENABLED ApplyUpdate(b)
        /\ LET pending == GetOrdersByStatus(PendingStatuses)
           IN  (/\ loop = "running" /\ ~cancelled
                /\ pending # {}
                /\ Cardinality(pending) <= Cardinality(FreeTasks))
                    => ENABLED processOrders

\* one second into the two that a goroutine sleeps for one order, still NEW, the
\* goroutine of another order holds the answer PROCESSED and is about to write it
PauseIsLocalWitness ==
    \E a, b \in Task :
        /\ tasks[a].pc = "sleep" /\ tasks[a].after = MaxRetryAfter /\ tasks[a].slept = 1
        /\ tasks[b].pc = "update"
        /\ tasks[b].order # tasks[a].order
        /\ tasks[b].resp.status = "PROCESSED"
        /\ \E o \in orders : o.number = tasks[a].order /\ o.status = "NEW"

\* C20: a goroutine that returns straight from its GET, because the answer was 204,
\* or the request failed or the 200 body did not decode, or the answer was 429 with
\* a Retry-After that does not parse, leaves the ledger as it was: the order keeps
\* its status and accrual, so one that was pending is still listed by the next tick.
FailedPollKeeps ==
    [][\A t \in Task : (tasks[t].pc = "get" /\ tasks'[t].pc = "idle") =>
        /\ last'.op = "poll" /\ last'.number = tasks[t].order
        /\ last'.code \in {204, 0, 429}
        /\ orders' = orders
        /\ withdrawals' = withdrawals
        /\ \A o \in orders :
            (o.number = tasks[t].order /\ o.status \in PendingStatuses)
                => \E p \in orders' : p = o /\ p.status \in PendingStatuses]_vars

\* a GET for an order that the accrual system has PROCESSED was just answered 429
\* with a Retry-After that did not parse (no goroutine is left), and the order is
\* NEW as before
FailedPollKeepsWitness ==
    /\ last.op = "poll" /\ last.code = 429
    /\ \A t \in Task : tasks[t].pc = "idle"
    /\ \E o \in orders : /\ o.number = last.number
                          /\ o.status = "NEW"
                          /\ oracle[o.number].status = "PROCESSED"

\* goroutine t returns in this step without having written to the ledger
FailsAt(t) ==
    /\ tasks[t].pc \in {"get", "update"}
    /\ tasks'[t].pc = "idle"
    /\ last'.code = 0
    /\ last'.op \in {"poll", "update"}

\* C21: a goroutine that fails (its GET fails or its body does not decode, or its
\* UpdateOrder fails) touches no other goroutine and not the loop, and whatever
\* has failed before, every goroutine at its GET or holding an answer can take its
\* step; a tick whose pending-orders query fails changes nothing and leaves the
\* loop running, and a tick that finds pending orders (and room for their
\* goroutines) can start them.
SelfHealing ==
    /\ [][/\ \A t \in Task : FailsAt(t) =>
                /\ \A b \in Task \ {t} : tasks'[b] = tasks[b]
                /\ UNCHANGED <<orders, loop>>
          /\ last'.op = "tick" =>
                /\ loop = "running" /\ loop' = "running"
                /\ UNCHANGED <<orders, tasks>>]_vars
    /\ [](\A b \in Task :
            /\ tasks[b].pc = "get" => ENABLED TaskStep(b)
            /\ tasks[b].pc = "update" => ENABLED ApplyUpdate(b))
    /\ [](LET pending == GetOrdersByStatus(PendingStatuses)
          IN  (pending # {} /\ Cardinality(pending) <= Cardinality(FreeTasks))
                  => ENABLED processOrders)

\* the GET for one order has just failed, the order is NEW as before, and the
\* goroutine started for the other order holds its answer, about to write it
SelfHealingWitness ==
    /\ last.op = "poll" /\ last.code = 0
    /\ \E o \in orders : o.number = last.number /\ o.status = "NEW"
    /\ \E b \in Task : /\ tasks[b].pc = "update"
                        /\ tasks[b].order # last.number
                        /\ \E o \in orders : o.number = tasks[b].order /\ o.status = "NEW"

\* C22: a step that changes an order's status or its accrual is the UPDATE of a
\* goroutine that holds an answer, and it leaves the order with the status and the
\* accrual of that answer, both: between two states, which is all a reader's
\* query can see, no order has the one new and the other old. This also when the
\* signal comes during the UPDATE.
UpdateIsAtomic ==
    [][\A o \in orders : \A p \in orders' :
        (p.number = o.number /\ p # o) =>
            \E t \in Task :
                /\ tasks[t].pc = "update" /\ tasks'[t].pc = "idle"
                /\ tasks[t].resp.order = o.number
                /\ p = [o EXCEPT !.status = tasks[t].resp.status,
                                  !.accrual = tasks[t].resp.accrual]]_vars

\* the signal came during the UPDATE that made an order PROCESSED, and the order
\* holds its accrual
UpdateIsAtomicWitness ==
    /\ cancelled
    /\ last.op = "update" /\ last.code = 1
    /\ \E o \in orders : /\ o.number = last.number
                          /\ o.status = "PROCESSED"
                          /\ o.accrual # Nil

\* C23: every stored order's number is a non-empty string of decimal digits that
\* satisfies the Luhn checksum, and a submission whose body is empty, holds a
\* character that is no digit, or fails the checksum is answered 422 and changes
\* nothing.
NumbersWellFormed ==
    /\ \A o \in orders :
        /\ o.number # <<>>
        /\ \A k \in 1..Len(o.number) : o.number[k] \in 0..9
        /\ LuhnSum(o.number, 0) % 10 = 0
    /\ (last.op = "CreateOrder" /\ last.number = <<>>) => last.code = 422

\* C24: the UPDATE of a goroutine started for order number N changes no order but
\* N, whatever order number the body it decoded carries.
OnlyOwnOrder ==
    [][\A t \in Task : (tasks[t].pc = "update" /\ tasks'[t].pc = "idle") =>
        \A o \in orders : o.number # tasks[t].order => o \in orders']_vars

\* C25: every row of the withdrawals table has a sum greater than zero, so that no
\* Withdraw call lowers a user's withdrawn total: a request with a zero or negative
\* sum inserts nothing.
WithdrawalsPositive ==
    /\ \A k \in 1..Len(withdrawals) : withdrawals[k].sum > 0
    /\ \A u \in Users : WithdrawnSum(u) >= 0

\* C26: at any time at most one goroutine of updateOrderStatus is alive for an
\* order: a tick starts none for an order whose earlier goroutine, for instance one
\* sleeping out a Retry-After, has not returned yet.
OneResolutionPerOrder ==
    \A a, b \in Task :
        (a # b /\ tasks[a].pc # "idle" /\ tasks[b].pc # "idle")
            => tasks[a].order # tasks[b].order
====
